---- MODULE Spec2Model ----
(***************************************************************************)
(* A state-machine model of src/internal/Subscription.ts (the Subscription *)
(* resource tree) and of the source adapters of src/internal/create/from.ts *)
(*                                                                         *)
(* JavaScript is single-threaded: the model keeps one call stack.  A frame  *)
(* is a call of Subscription.unsubscribe, of Subscription.add on a closed   *)
(* subscription, of a user function (a teardown or the function handed to   *)
(* the constructor), of the adapter or of the sink.  User functions are     *)
(* arbitrary code: while one is running it may call unsubscribe, add and    *)
(* remove on any subscription (re-entrancy), and it ends by returning or by *)
(* throwing.                                                                *)
(***************************************************************************)
EXTENDS Integers, Sequences, FiniteSets, TLC

----------------------------------------------------------------------------
(* The objects of a run.                                                   *)

\* The Subscription objects.  "A" is constructed with an unsubscribe
\* function ("r"); "B" and "C" are constructed without one.
Tok == {"A", "B", "C"}
\* The plain functions that are handed to add() as teardowns.
Fn == {"f", "g"}
\* The function handed to the constructor of "A".
CtorFn == "r"
\* The function symbolObservableSource hands to subs.add (from.ts, line 78).
InteropTeardown == "u"
null == "null"
undefined == "undefined"
\* A null array reference, as distinct from the empty array <<>>.
NullSeq == <<"null">>
\* The name under which an UnsubscriptionError shows when it is treated as
\* a plain error value.
AggName == "UnsubscriptionError"

\* Calls (unsubscribe, add, remove) the environment makes in one run.
MaxOps == 4
\* Calls the environment makes in one run of a source adapter.
MaxSrcOps == 2
\* Items of the longest list of values an iterable is given.
MaxItems == 2
\* Calls of iterator.next() in one run (an endless iterable never stops by itself).
MaxPulls == 3
\* Calls the environment makes in one run of symbolObservableSource.
MaxInteropOps == 1
\* Messages an external observable sends in one run.
MaxOut == 2

VARIABLES
    closed,          \* Subscription.closed
    singleParent,    \* Subscription._singleParent
    parents,         \* Subscription._parents
    teardowns,       \* Subscription._teardowns
    unsubscribeFn,   \* Subscription._unsubscribe
    stack,           \* the call stack, innermost call last
    budget,          \* calls the environment may still make
    due,             \* history: per teardown, entries stored and not yet executed or removed
    relRuns,         \* history: per subscription, calls of its _unsubscribe
    closings,        \* history: per subscription, executions of `this.closed = true`
    snap,            \* history: per subscription, the Subscriptions in the list it iterated
    last,            \* history: the latest call the environment made
    detached,        \* history: <<parent, child>> pairs split by remove() and not re-added
    subs,            \* the Subscription handed to the source with SUBSCRIBE (null before)
    items,           \* iterableSource: the values the iterable yields first
    endless,         \* iterableSource: the iterable never reports done
    pulled,          \* iterableSource: calls of iterator.next() so far
    out,             \* the messages delivered to the sink, in order
    failing,         \* the iterable fails (next() throws, or its promise rejects) once its values are out
    escaped,         \* history: the error thrown out of the source's code (null if none)
    promise,         \* promiseSource: how the promise settles
    pending,         \* callbacks registered with a promise and not yet called
    obs,             \* symbolObservableSource: what input[Symbol.observable]() returns
    handle,          \* symbolObservableSource: the local variable `subscription`
    extSubs,         \* history: calls of obs.subscribe
    extUnsubs        \* history: calls of subscription.unsubscribe

vars == <<closed, singleParent, parents, teardowns, unsubscribeFn, stack, budget,
          due, relRuns, closings, snap, last, detached, subs, items, endless, pulled, out,
          failing, escaped, promise, pending, obs, handle, extSubs, extUnsubs>>

subVars == <<closed, singleParent, parents, teardowns, unsubscribeFn, stack,
             due, relRuns, closings, snap, detached>>
\* The Subscription objects and their history, without the call stack.
objVars == <<closed, singleParent, parents, teardowns, unsubscribeFn,
             due, relRuns, closings, snap, detached>>
\* What a source is made from: fixed when the source is constructed.
inputVars == <<items, endless, failing, promise, obs>>
prodVars == <<subs, pulled, out, pending, handle, extSubs, extUnsubs, inputVars>>
srcVars == <<prodVars, escaped>>

----------------------------------------------------------------------------
(* Arrays.                                                                 *)

\* Array.prototype.indexOf, 1-based; 0 where JavaScript answers -1.
IndexOf(s, x) ==
    IF \E i \in 1..Len(s) : s[i] = x
    THEN CHOOSE i \in 1..Len(s) : s[i] = x /\ \A j \in 1..(i - 1) : s[j] # x
    ELSE 0

\* Array.prototype.splice(index, 1).
Splice(s, i) == [k \in 1..(Len(s) - 1) |-> IF k < i THEN s[k] ELSE s[k + 1]]

\* Array.prototype.includes.
Includes(s, x) == \E i \in 1..Len(s) : s[i] = x

Top(stk) == stk[Len(stk)]
Pop(stk) == SubSeq(stk, 1, Len(stk) - 1)

----------------------------------------------------------------------------
(* The machine: the heap of Subscription objects, the call stack and the   *)
(* history variables, as one record, so that the code's statements compose *)
(* as functions from machine to machine.                                   *)

M == [closed |-> closed, singleParent |-> singleParent, parents |-> parents,
      teardowns |-> teardowns, unsubscribeFn |-> unsubscribeFn, stack |-> stack,
      due |-> due, relRuns |-> relRuns, closings |-> closings, snap |-> snap,
      detached |-> detached]

Set(m) ==
    /\ closed' = m.closed
    /\ singleParent' = m.singleParent
    /\ parents' = m.parents
    /\ teardowns' = m.teardowns
    /\ unsubscribeFn' = m.unsubscribeFn
    /\ stack' = m.stack
    /\ due' = m.due
    /\ relRuns' = m.relRuns
    /\ closings' = m.closings
    /\ snap' = m.snap
    /\ detached' = m.detached

\* A value that is thrown: a plain error (named after the function that
\* threw it) or an UnsubscriptionError with its errors array.
PlainError(name) == [agg |-> FALSE, name |-> name, errors |-> <<>>]
UnsubscriptionError(errors) == [agg |-> TRUE, name |-> AggName, errors |-> errors]

\* Stack frames.  pc of an unsubscribe frame: "release" while _unsubscribe
\* runs (line 94), "loop" in the for-of over the teardowns (line 103),
\* "end" at the final `if (errors)` (line 121).  thrown, ran, desc and kin
\* are history: the values thrown into the frame, the teardowns its loop
\* executed, and of an unsubscribe call what held when it was made: the
\* Subscriptions below it (desc), its open parents and their entries (kin).
Frame(op, self, arg, pc) ==
    [op |-> op, self |-> self, arg |-> arg, pc |-> pc, errors |-> NullSeq,
     list |-> NullSeq, idx |-> 0, thrown |-> <<>>, ran |-> 0, desc |-> {}, kin |-> {}]

Push(m, fr) == [m EXCEPT !.stack = Append(@, fr)]
SetTop(m, fr) == [m EXCEPT !.stack[Len(m.stack)] = fr]

----------------------------------------------------------------------------
(* Subscription.ts                                                         *)

\* constructor, lines 46-51: _ctorUnsubscribe is set exactly when an
\* unsubscribe function was passed.
CtorUnsubscribe(t) == t = "A"

\* Mutant of HasParent: the _parents array is not looked at.
HasParentSingleOnly(m, c, p) == m.singleParent[c] = p

\* _hasParent, lines 177-179.
HasParent(m, c, p) ==
    \/ m.singleParent[c] = p
    \/ (m.parents[c] # NullSeq /\ Includes(m.parents[c], p))

\* Mutant of AddParent: a second parent takes the place of the first.
AddParentOverwrite(m, c, p) ==
    IF m.parents[c] # NullSeq /\ m.singleParent[c] = null
    THEN [m EXCEPT !.parents[c] = Append(@, p)]
    ELSE [m EXCEPT !.singleParent[c] = p]

\* _addParent, lines 188-203.  The empty array is truthy: a subscription
\* whose _parents was emptied keeps using the array.
AddParent(m, c, p) ==
    IF m.singleParent[c] # null
    THEN [m EXCEPT !.parents[c] = <<m.singleParent[c], p>>, !.singleParent[c] = null]
    ELSE IF m.parents[c] # NullSeq
    THEN [m EXCEPT !.parents[c] = Append(@, p)]
    ELSE [m EXCEPT !.singleParent[c] = p]

\* _removeParent, lines 209-222.
RemoveParent(m, c, p) ==
    IF m.singleParent[c] # null
    THEN IF m.singleParent[c] = p THEN [m EXCEPT !.singleParent[c] = null] ELSE m
    ELSE IF m.parents[c] # NullSeq
    THEN LET index == IndexOf(m.parents[c], p)
         IN  IF index >= 1 THEN [m EXCEPT !.parents[c] = Splice(@, index)] ELSE m
    ELSE m

\* Mutant of RemoveEntry: the last occurrence of x leaves the list.
RemoveEntryLast(m, t, x) ==
    IF m.teardowns[t] # NullSeq /\ Includes(m.teardowns[t], x)
    THEN LET index == CHOOSE i \in 1..Len(m.teardowns[t]) :
                          /\ m.teardowns[t][i] = x
                          /\ \A j \in (i + 1)..Len(m.teardowns[t]) : m.teardowns[t][j] # x
         IN  [m EXCEPT !.teardowns[t] = Splice(@, index), !.due[x] = @ - 1]
    ELSE m

\* remove, lines 239-245: the first occurrence of x leaves the list.
\* (due is history: one stored entry of x is gone.)
RemoveEntry(m, t, x) ==
    IF m.teardowns[t] # NullSeq
    THEN LET index == IndexOf(m.teardowns[t], x)
         IN  IF index >= 1
             THEN [m EXCEPT !.teardowns[t] = Splice(@, index), !.due[x] = @ - 1]
             ELSE m
    ELSE m

\* Mutant of remove: the child keeps the parent in its back-references.
removeKeepsParent(m, t, x) == RemoveEntry(m, t, x)

\* remove, lines 238-250.
remove(m, t, x) ==
    LET m1 == RemoveEntry(m, t, x)
    IN  IF x \in Tok THEN RemoveParent(m1, x, t) ELSE m1

\* unsubscribe, lines 74-76: parent.remove(this) for each parent of the
\* local array ps, from index i on.
RECURSIVE RemoveFromParents(_, _, _, _)
RemoveFromParents(m, ps, i, t) ==
    IF i > Len(ps) THEN m ELSE RemoveFromParents(remove(m, ps[i], t), ps, i + 1, t)

\* Mutant of DetachFromParents: the _parents array is not walked.
DetachSingleOnly(m, t) ==
    IF m.singleParent[t] # null
    THEN remove([m EXCEPT !.singleParent[t] = null], m.singleParent[t], t)
    ELSE m

\* unsubscribe, lines 67-77: "Remove this from it's parents."
DetachFromParents(m, t) ==
    IF m.singleParent[t] # null
    THEN remove([m EXCEPT !.singleParent[t] = null], m.singleParent[t], t)
    ELSE IF m.parents[t] # NullSeq
    THEN RemoveFromParents([m EXCEPT !.parents[t] = NullSeq], m.parents[t], 1, t)
    ELSE m

\* A user function is called: teardown(), or _unsubscribe.call(this).
\* (InteropTeardown is code of from.ts, not a user function: its frame is
\* told apart.)
CallFn(m, f) == Push(m, Frame(IF f = InteropTeardown THEN "teardown" ELSE "fn", null, f, "run"))

\* unsubscribe, lines 100-102: the top frame (an unsubscribe call) takes the
\* list into a local, clears the field and enters the loop.
\* (snap is history: the Subscriptions of the list that is iterated.)
TakeTeardowns(m) ==
    LET fr == Top(m.stack)
        t == fr.self
        local == m.teardowns[t]
    IN  [SetTop(m, [fr EXCEPT !.pc = "loop", !.list = local, !.idx = 1])
            EXCEPT !.teardowns[t] = NullSeq,
                   !.snap[t] = IF local = NullSeq THEN {}
                               ELSE {local[i] : i \in 1..Len(local)} \cap Tok]

\* The Subscriptions in the lists of the subscriptions S.
Entries(m, S) ==
    UNION {IF m.teardowns[t] = NullSeq THEN {}
           ELSE {m.teardowns[t][i] : i \in 1..Len(m.teardowns[t])} \cap Tok : t \in S}

\* The Subscriptions in the lists of S, in the lists of those, and so on.
RECURSIVE Below(_, _)
Below(m, S) ==
    LET S2 == S \cup Entries(m, S)
    IN  IF S2 = S THEN S ELSE Below(m, S2)

\* The frame of a call of unsubscribe on the open subscription t.
\* (desc and kin are history: the children and grandchildren of t, and the
\* open parents of t with the other open Subscriptions of their lists.)
UnsubFrame(m, t) ==
    LET ps == {p \in Tok : HasParent(m, t, p) /\ ~m.closed[p]}
    IN  [Frame("unsubscribe", t, null, "release") EXCEPT
            !.desc = Below(m, Entries(m, {t})),
            !.kin = {x \in (ps \cup Entries(m, ps)) \ {t} : ~m.closed[x]}]

\* Mutant of AlreadyClosed: the closed flag is not looked at.
AlreadyClosedNever(m, t) == FALSE

\* unsubscribe, line 62: `if (!this.closed)` fails.
AlreadyClosed(m, t) == m.closed[t]

\* unsubscribe, lines 59-101, up to the first call of user code: the call
\* of _unsubscribe when there is one, the loop otherwise.  On a closed
\* subscription the call returns at once and leaves the machine as it is.
\* (closings and relRuns are history.)
unsubscribe(m, t) ==
    IF AlreadyClosed(m, t) THEN m
    ELSE LET m1 == [m EXCEPT !.closed[t] = TRUE, !.closings[t] = @ + 1]
             m2 == DetachFromParents(m1, t)
             fn == m2.unsubscribeFn[t]
         IN  IF fn # null
             THEN LET m3 == IF CtorUnsubscribe(t)
                            THEN [m2 EXCEPT !.unsubscribeFn[t] = null]
                            ELSE m2
                      m4 == [m3 EXCEPT !.relRuns[t] = @ + 1]
                  IN  CallFn(Push(m4, UnsubFrame(m, t)), fn)
             ELSE TakeTeardowns(Push(m2, UnsubFrame(m, t)))

\* unsubscribe, line 96: what the catch around _unsubscribe makes of e.
CatchRelease(e) == IF e.agg THEN e.errors ELSE <<e.name>>

\* Mutant of CatchTeardown: an UnsubscriptionError is kept as one error.
CatchTeardownNested(errors, err) ==
    Append(IF errors = NullSeq THEN <<>> ELSE errors, err.name)

\* unsubscribe, lines 110-117: what the catch around a teardown makes of err.
CatchTeardown(errors, err) ==
    LET es == IF errors = NullSeq THEN <<>> ELSE errors
    IN  IF err.agg THEN es \o err.errors ELSE Append(es, err.name)

\* The top frame returns normally: it is popped, and its caller goes on.
\* A call of add (made on a closed subscription) has nothing left to do and
\* returns too; an unsubscribe whose _unsubscribe returned goes on to its
\* teardowns (line 100).
RECURSIVE Return(_)
Return(m) ==
    LET m1 == [m EXCEPT !.stack = Pop(@)]
    IN  IF m1.stack = <<>> THEN m1
        ELSE LET fr == Top(m1.stack)
             IN  IF fr.op = "add" THEN Return(m1)
                 ELSE IF fr.op = "unsubscribe" /\ fr.pc = "release" THEN TakeTeardowns(m1)
                 ELSE m1

\* The top frame throws e: it is popped, and e goes to its caller.  add()
\* and user functions have no handler, so e passes through them; the
\* environment at the bottom of the stack catches it.  unsubscribe catches
\* it at line 95 or at line 110.  (thrown is history.)
RECURSIVE Throw(_, _)
Throw(m, e) ==
    LET m1 == [m EXCEPT !.stack = Pop(@)]
    IN  IF m1.stack = <<>> THEN m1
        ELSE LET fr == Top(m1.stack)
             IN  IF fr.op = "unsubscribe" /\ fr.pc = "release"
                 THEN TakeTeardowns(SetTop(m1, [fr EXCEPT !.errors = CatchRelease(e),
                                                          !.thrown = Append(@, e)]))
                 ELSE IF fr.op = "unsubscribe" /\ fr.pc = "loop"
                 THEN SetTop(m1, [fr EXCEPT !.errors = CatchTeardown(@, e),
                                            !.thrown = Append(@, e)])
                 ELSE Throw(m1, e)

\* Mutant of LoopStep: the loop is left once an error was caught.
LoopStepAbort(m) ==
    LET fr == Top(m.stack)
    IN  IF fr.list = NullSeq \/ fr.idx > Len(fr.list) \/ fr.errors # NullSeq
        THEN SetTop(m, [fr EXCEPT !.pc = "end"])
        ELSE LET teardown == fr.list[fr.idx]
                 m1 == [SetTop(m, [fr EXCEPT !.idx = @ + 1, !.ran = @ + 1])
                           EXCEPT !.due[teardown] = @ - 1]
             IN  IF teardown \notin Tok THEN CallFn(m1, teardown)
                 ELSE unsubscribe(m1, teardown)

\* unsubscribe, lines 103-109: one round of the for-of loop, up to the call
\* of the teardown; past the last teardown, on to line 121.
\* (ran and due are history: one stored entry is executed.)
LoopStep(m) ==
    LET fr == Top(m.stack)
    IN  IF fr.list = NullSeq \/ fr.idx > Len(fr.list)
        THEN SetTop(m, [fr EXCEPT !.pc = "end"])
        ELSE LET teardown == fr.list[fr.idx]
                 m1 == [SetTop(m, [fr EXCEPT !.idx = @ + 1, !.ran = @ + 1])
                           EXCEPT !.due[teardown] = @ - 1]
             IN  IF teardown \notin Tok THEN CallFn(m1, teardown)
                 ELSE unsubscribe(m1, teardown)

\* unsubscribe, lines 121-124: `if (errors) throw new UnsubscriptionError(errors)`.
\* An array, even an empty one, is truthy.
EndStep(m) ==
    LET fr == Top(m.stack)
    IN  IF fr.errors # NullSeq THEN Throw(m, UnsubscriptionError(fr.errors))
        ELSE Return(m)

\* add, lines 149-156: on a closed subscription the teardown is executed at
\* once.  The call of add stays on the stack while the teardown runs.
AddClosed(m, t, x) ==
    LET m1 == Push(m, Frame("add", t, x, "call"))
        m2 == IF x \notin Tok THEN CallFn(m1, x) ELSE unsubscribe(m1, x)
    IN  IF Len(m2.stack) = Len(m1.stack) THEN Return(m2) ELSE m2

\* Mutant of AddOpen: a closed Subscription is stored like an open one.
AddOpenStoresClosed(m, t, x) ==
    IF x \in Tok /\ HasParent(m, x, t) THEN m
    ELSE LET m1 == IF x \in Tok THEN AddParent(m, x, t) ELSE m
         IN  [m1 EXCEPT !.teardowns[t] = Append(IF @ = NullSeq THEN <<>> ELSE @, x),
                        !.due[x] = @ + 1]

\* add, lines 158-167: on an open subscription the teardown is stored.
\* (due is history: one more stored entry.)
AddOpen(m, t, x) ==
    IF x \in Tok /\ (m.closed[x] \/ HasParent(m, x, t)) THEN m
    ELSE LET m1 == IF x \in Tok THEN AddParent(m, x, t) ELSE m
         IN  [m1 EXCEPT !.teardowns[t] = Append(IF @ = NullSeq THEN <<>> ELSE @, x),
                        !.due[x] = @ + 1]

\* Mutant of add: the teardown is stored whether or not this is closed.
addAlwaysStores(m, t, x) ==
    IF x # undefined /\ x # t THEN AddOpen(m, t, x) ELSE m

\* add, lines 145-170.
add(m, t, x) ==
    IF x # undefined /\ x # t
    THEN IF m.closed[t] THEN AddClosed(m, t, x) ELSE AddOpen(m, t, x)
    ELSE m

----------------------------------------------------------------------------
(* The Subscription machine: the environment's calls and the steps of the  *)
(* calls in progress.                                                      *)

\* last: the call, the depth of the stack it was made at, and of the
\* subscription it was made on: its list (pre) and its parents (pp) before.
NoCall == [op |-> "none", self |-> null, arg |-> null, depth |-> 0, pre |-> NullSeq, pp |-> {}]

CallOf(op, t, x) ==
    [op |-> op, self |-> t, arg |-> x, depth |-> Len(stack), pre |-> teardowns[t],
     pp |-> {p \in Tok : HasParent(M, t, p)}]

InitSub ==
    /\ closed = [t \in Tok |-> FALSE]
    /\ singleParent = [t \in Tok |-> null]
    /\ parents = [t \in Tok |-> NullSeq]
    /\ teardowns = [t \in Tok |-> NullSeq]
    /\ unsubscribeFn = [t \in Tok |-> IF CtorUnsubscribe(t) THEN CtorFn ELSE null]
    /\ stack = <<>>
    /\ due = [x \in Tok \cup Fn \cup {InteropTeardown} |-> 0]
    /\ relRuns = [t \in Tok |-> 0]
    /\ closings = [t \in Tok |-> 0]
    /\ snap = [t \in Tok |-> {}]
    /\ detached = {}
    /\ last = NoCall

\* No source has been subscribed to.
NoPromise == [state |-> "pending", value |-> undefined]
InitSrc ==
    /\ subs = null
    /\ pulled = 0
    /\ out = <<>>
    /\ escaped = null
    /\ pending = 0
    /\ handle = undefined
    /\ extSubs = 0
    /\ extUnsubs = 0

Init ==
    /\ InitSub
    /\ budget = MaxOps
    /\ InitSrc
    /\ items = <<>>
    /\ endless = FALSE
    /\ failing = FALSE
    /\ promise = NoPromise
    /\ obs = undefined

\* Code that may call into the Subscription API: the program's top level,
\* a user function that is running, or the sink handling a message.
CanCall ==
    /\ budget > 0
    /\ IF stack = <<>> THEN TRUE ELSE Top(stack).op \in {"fn", "sink"}

\* subscription.unsubscribe()
CallUnsubscribe(t) ==
    /\ CanCall
    /\ Set(unsubscribe(M, t))
    /\ budget' = budget - 1
    /\ last' = CallOf("unsubscribe", t, null)
    /\ UNCHANGED srcVars

\* subscription.add(x)
\* (detached is history: a stored child is attached again.)
CallAdd(t, x) ==
    /\ CanCall
    /\ LET m == add(M, t, x)
       IN  Set([m EXCEPT !.detached =
                   IF m.teardowns[t] # teardowns[t] THEN @ \ {<<t, x>>} ELSE @])
    /\ budget' = budget - 1
    /\ last' = CallOf("add", t, x)
    /\ UNCHANGED srcVars

\* subscription.remove(x)
\* (detached is history: an open child that was in the list is split off.)
CallRemove(t, x) ==
    /\ CanCall
    /\ LET m == remove(M, t, x)
       IN  Set([m EXCEPT !.detached =
                   IF /\ x \in Tok
                      /\ ~closed[x]
                      /\ teardowns[t] # NullSeq
                      /\ Includes(teardowns[t], x)
                   THEN @ \cup {<<t, x>>} ELSE @])
    /\ budget' = budget - 1
    /\ last' = CallOf("remove", t, x)
    /\ UNCHANGED srcVars

\* The name of what a sink throws.
SinkError == "sink error"

\* (escaped is history: when the machine goes from M to m by a throw that
\* unwinds a call of the sink, the error leaves the source's code, which has
\* no handler, through the sink.)
Escapes(m) ==
    IF \E i \in 1..Len(stack) : stack[i].op = "sink" /\ Len(m.stack) < i
    THEN SinkError ELSE escaped

\* The running user function returns.
FnReturn ==
    /\ stack # <<>>
    /\ Top(stack).op = "fn"
    /\ Set(Return(M))
    /\ UNCHANGED <<budget, last, srcVars>>

\* The running user function throws an error of its own.
FnThrow ==
    /\ stack # <<>>
    /\ Top(stack).op = "fn"
    /\ LET m == Throw(M, PlainError(Top(stack).arg))
       IN  Set(m) /\ escaped' = Escapes(m)
    /\ UNCHANGED <<budget, last, prodVars>>

\* unsubscribe: one round of the teardown loop.
UnsubLoop ==
    /\ stack # <<>>
    /\ Top(stack).op = "unsubscribe"
    /\ Top(stack).pc = "loop"
    /\ Set(LoopStep(M))
    /\ UNCHANGED <<budget, last, srcVars>>

\* unsubscribe: the end of the call.
UnsubEnd ==
    /\ stack # <<>>
    /\ Top(stack).op = "unsubscribe"
    /\ Top(stack).pc = "end"
    /\ LET m == EndStep(M)
       IN  Set(m) /\ escaped' = Escapes(m)
    /\ UNCHANGED <<budget, last, prodVars>>

Next ==
    \/ \E t \in Tok : CallUnsubscribe(t)
    \/ \E t \in Tok, x \in Tok \cup Fn \cup {undefined} : CallAdd(t, x)
    \/ \E t \in Tok, x \in Tok \cup Fn : CallRemove(t, x)
    \/ FnReturn
    \/ FnThrow
    \/ UnsubLoop
    \/ UnsubEnd

Spec == Init /\ [][Next]_vars

\* The machine after the construction of the subscriptions.
NewM ==
    [closed |-> [t \in Tok |-> FALSE],
     singleParent |-> [t \in Tok |-> null],
     parents |-> [t \in Tok |-> NullSeq],
     teardowns |-> [t \in Tok |-> NullSeq],
     unsubscribeFn |-> [t \in Tok |-> IF CtorUnsubscribe(t) THEN CtorFn ELSE null],
     stack |-> <<>>,
     due |-> [x \in Tok \cup Fn \cup {InteropTeardown} |-> 0],
     relRuns |-> [t \in Tok |-> 0],
     closings |-> [t \in Tok |-> 0],
     snap |-> [t \in Tok |-> {}],
     detached |-> {}]

\* The machine is m.
Is(m) ==
    /\ closed = m.closed
    /\ singleParent = m.singleParent
    /\ parents = m.parents
    /\ teardowns = m.teardowns
    /\ unsubscribeFn = m.unsubscribeFn
    /\ stack = m.stack
    /\ due = m.due
    /\ relRuns = m.relRuns
    /\ closings = m.closings
    /\ snap = m.snap
    /\ detached = m.detached

\* The program after "A".add("B") on new subscriptions: the machine after
\* construction, taken through add.
InitTree ==
    /\ Is(add(NewM, "A", "B"))
    /\ last = NoCall
    /\ budget = MaxOps
    /\ InitSrc
    /\ items = <<>>
    /\ endless = FALSE
    /\ failing = FALSE
    /\ promise = NoPromise
    /\ obs = undefined

SpecTree == InitTree /\ [][Next]_vars

----------------------------------------------------------------------------
(* from.ts: iterableSource, lines 51-64.                                   *)

Message(type, value) == [type |-> type, value |-> value]

\* iterator.next(), called for the n+1st time, throws.
IteratorThrows(n) == n >= Len(items) /\ ~endless /\ failing

\* Mutant of IteratorNext: done is reported one item early.
IteratorNextEarlyDone(n) ==
    IF n + 1 < Len(items) THEN [done |-> FALSE, value |-> items[n + 1]]
    ELSE IF endless THEN [done |-> FALSE, value |-> "x"]
    ELSE [done |-> TRUE, value |-> undefined]

\* iterator.next() for the n+1st time, line 57.
IteratorNext(n) ==
    IF n < Len(items) THEN [done |-> FALSE, value |-> items[n + 1]]
    ELSE IF endless THEN [done |-> FALSE, value |-> "x"]
    ELSE [done |-> TRUE, value |-> undefined]

\* Mutant of SubsClosed: the loop does not look at subs.closed.
SubsClosedNever == FALSE

\* line 56: `if (subs.closed) return;`
SubsClosed == closed[subs]

\* source(FOType.SUBSCRIBE, sink, subs), lines 52-54: the iterator is made
\* and the loop is entered.
Subscribe(t) ==
    /\ stack = <<>>
    /\ subs = null
    /\ subs' = t
    /\ stack' = <<Frame("iterableSource", t, null, "loop")>>
    /\ UNCHANGED <<objVars, budget, last, pulled, out, escaped, pending, handle,
                   extSubs, extUnsubs, inputVars>>

\* lines 55-61: one round of the while loop, up to the call of the sink:
\* return when the subscription is closed; otherwise pull, and send NEXT, or
\* leave the loop on done and send COMPLETE.  Nothing catches what
\* iterator.next() throws: it leaves the SUBSCRIBE call.
IterStep ==
    /\ stack # <<>>
    /\ Top(stack).op = "iterableSource"
    /\ Top(stack).pc = "loop"
    /\ IF SubsClosed
       THEN /\ stack' = Pop(stack)
            /\ UNCHANGED <<pulled, out, escaped>>
       ELSE IF IteratorThrows(pulled)
       THEN /\ pulled' = pulled + 1
            /\ stack' = Pop(stack)
            /\ escaped' = "iterator error"
            /\ out' = out
       ELSE /\ pulled < MaxPulls
            /\ pulled' = pulled + 1
            /\ escaped' = escaped
            /\ LET r == IteratorNext(pulled)
               IN  IF r.done
                   THEN /\ out' = Append(out, Message("COMPLETE", undefined))
                        /\ stack' = Append([stack EXCEPT ![Len(stack)].pc = "done"],
                                           Frame("sink", subs, "COMPLETE", "run"))
                   ELSE /\ out' = Append(out, Message("NEXT", r.value))
                        /\ stack' = Append(stack, Frame("sink", subs, "NEXT", "run"))
    /\ UNCHANGED <<objVars, budget, last, subs, pending, handle, extSubs, extUnsubs,
                   inputVars>>

\* line 62: the source returns after COMPLETE.
IterReturn ==
    /\ stack # <<>>
    /\ Top(stack).op = "iterableSource"
    /\ Top(stack).pc = "done"
    /\ Set(Return(M))
    /\ UNCHANGED <<budget, last, srcVars>>

\* The sink returns from handling a message.
SinkReturn ==
    /\ stack # <<>>
    /\ Top(stack).op = "sink"
    /\ Set(Return(M))
    /\ UNCHANGED <<budget, last, srcVars>>

\* The iterables: "x", "y", "x", ... up to MaxItems values, then done, or
\* then "x" for ever.
Iterables == {[i \in 1..n |-> IF i % 2 = 1 THEN "x" ELSE "y"] : n \in 0..MaxItems}

InitIter ==
    /\ InitSub
    /\ budget = MaxSrcOps
    /\ InitSrc
    /\ items \in Iterables
    /\ endless \in BOOLEAN
    /\ failing \in BOOLEAN
    /\ ~(endless /\ failing)
    /\ promise = NoPromise
    /\ obs = undefined

NextIter ==
    \/ Next
    \/ \E t \in Tok : Subscribe(t)
    \/ IterStep
    \/ IterReturn
    \/ SinkReturn

SpecIter == InitIter /\ [][NextIter]_vars

----------------------------------------------------------------------------
(* from.ts: promiseSource, lines 36-49.                                    *)

\* The promises: one that fulfils with "x", one that rejects with "e", and
\* one that never settles.
Promises == {[state |-> "fulfilled", value |-> "x"],
             [state |-> "rejected", value |-> "e"],
             NoPromise}

\* source(FOType.SUBSCRIBE, sink, subs), lines 37-47: the two callbacks are
\* handed to promise.then, and the call returns.
SubscribePromise(t) ==
    /\ stack = <<>>
    /\ subs = null
    /\ subs' = t
    /\ pending' = 1
    /\ UNCHANGED <<objVars, stack, budget, last, pulled, out, escaped, handle,
                   extSubs, extUnsubs, inputVars>>

\* line 40: `if (!subs.closed)`.
FulfilledOpen == ~closed[subs]

\* lines 39-41: the promise is fulfilled and its first callback is called
\* (from the job queue, hence on an empty stack), up to the call of the sink.
OnFulfilled ==
    /\ stack = <<>>
    /\ pending = 1
    /\ promise.state = "fulfilled"
    /\ pending' = 0
    /\ IF FulfilledOpen
       THEN /\ out' = Append(out, Message("NEXT", promise.value))
            /\ stack' = <<Frame("promiseSource", subs, null, "next"),
                          Frame("sink", subs, "NEXT", "run")>>
       ELSE UNCHANGED <<out, stack>>
    /\ UNCHANGED <<objVars, budget, last, subs, pulled, escaped, handle,
                   extSubs, extUnsubs, inputVars>>

\* line 42: the sink has returned from NEXT; COMPLETE is sent.
OnFulfilledComplete ==
    /\ stack # <<>>
    /\ Top(stack).op = "promiseSource"
    /\ Top(stack).pc = "next"
    /\ out' = Append(out, Message("COMPLETE", undefined))
    /\ stack' = Append([stack EXCEPT ![Len(stack)].pc = "done"],
                       Frame("sink", subs, "COMPLETE", "run"))
    /\ UNCHANGED <<objVars, budget, last, subs, pulled, escaped, pending, handle,
                   extSubs, extUnsubs, inputVars>>

\* Mutant of OnRejected: the rejection is reported as NEXT.
OnRejectedAsNext ==
    /\ stack = <<>>
    /\ pending = 1
    /\ promise.state = "rejected"
    /\ pending' = 0
    /\ out' = Append(out, Message("NEXT", promise.value))
    /\ stack' = <<Frame("promiseSource", subs, null, "next"),
                  Frame("sink", subs, "NEXT", "run")>>
    /\ UNCHANGED <<objVars, budget, last, subs, pulled, escaped, handle,
                   extSubs, extUnsubs, inputVars>>

\* lines 44-46: the promise is rejected and its second callback is called,
\* up to the call of the sink.
OnRejected ==
    /\ stack = <<>>
    /\ pending = 1
    /\ promise.state = "rejected"
    /\ pending' = 0
    /\ out' = Append(out, Message("ERROR", promise.value))
    /\ stack' = <<Frame("promiseSource", subs, null, "done"),
                  Frame("sink", subs, "ERROR", "run")>>
    /\ UNCHANGED <<objVars, budget, last, subs, pulled, escaped, handle,
                   extSubs, extUnsubs, inputVars>>

\* lines 43 and 46: the callback returns.
CallbackReturn ==
    /\ stack # <<>>
    /\ Top(stack).op \in {"promiseSource", "asyncIterableSource"}
    /\ Top(stack).pc = "done"
    /\ Set(Return(M))
    /\ UNCHANGED <<budget, last, srcVars>>

InitPromise ==
    /\ InitSub
    /\ budget = MaxSrcOps
    /\ InitSrc
    /\ items = <<>>
    /\ endless = FALSE
    /\ failing = FALSE
    /\ promise \in Promises
    /\ obs = undefined

NextPromise ==
    \/ Next
    \/ \E t \in Tok : SubscribePromise(t)
    \/ OnFulfilled
    \/ OnFulfilledComplete
    \/ OnRejected
    \/ CallbackReturn
    \/ SinkReturn

SpecPromise == InitPromise /\ [][NextPromise]_vars

----------------------------------------------------------------------------
(* from.ts: symbolObservableSource, lines 66-90.                           *)

\* What input[Symbol.observable]() may return: null (or undefined); another
\* falsy value (0, "", false); an object without a subscribe method; an
\* object with one.
Observables == {null, "falsy", "object", "observable"}

\* line 70: `!obs`.
Falsy(o) == o \in {null, undefined, "falsy"}

\* line 73: reading a property of null or undefined throws a TypeError.
Nullish(o) == o \in {null, undefined}

\* Mutant of HasSubscribe: any object passes for an observable.
HasSubscribeAnyObject(o) == o \in {"object", "observable"}

\* line 73: `typeof obs.subscribe === 'function'`.
HasSubscribe(o) == o = "observable"

\* What obs.subscribe(...) may return: an object with an unsubscribe
\* method, an object without one, or nothing.
Handles == {"unsubscribable", "object", undefined}

\* line 79: `subscription && typeof subscription.unsubscribe === 'function'`.
Callable(h) == h = "unsubscribable"

\* The texts of the two errors of lines 71 and 74.
NotReturned == "observable not returned"
NoSubscribe == "no subscribe method on returned value"

\* source(FOType.SUBSCRIBE, sink, subs), lines 67-69.
SubscribeInterop(t) ==
    /\ stack = <<>>
    /\ subs = null
    /\ subs' = t
    /\ stack' = <<Frame("symbolObservableSource", t, null, "start")>>
    /\ UNCHANGED <<objVars, budget, last, pulled, out, escaped, pending, handle,
                   extSubs, extUnsubs, inputVars>>

\* lines 70-72: a falsy obs is reported with ERROR; the function goes on.
InteropStart ==
    /\ stack # <<>>
    /\ Top(stack).op = "symbolObservableSource"
    /\ Top(stack).pc = "start"
    /\ IF Falsy(obs)
       THEN /\ out' = Append(out, Message("ERROR", NotReturned))
            /\ stack' = Append([stack EXCEPT ![Len(stack)].pc = "check"],
                               Frame("sink", subs, "ERROR", "run"))
       ELSE /\ out' = out
            /\ stack' = [stack EXCEPT ![Len(stack)].pc = "check"]
    /\ UNCHANGED <<objVars, budget, last, subs, pulled, escaped, pending, handle,
                   extSubs, extUnsubs, inputVars>>

\* lines 73-82: `obs.subscribe` is read (a TypeError when obs is null or
\* undefined, which nothing catches); without a subscribe method ERROR is
\* sent and the function returns; otherwise the teardown is handed to
\* subs.add.
InteropCheck ==
    /\ stack # <<>>
    /\ Top(stack).op = "symbolObservableSource"
    /\ Top(stack).pc = "check"
    /\ IF Nullish(obs)
       THEN /\ escaped' = "TypeError"
            /\ stack' = Pop(stack)
            /\ UNCHANGED <<objVars, out>>
       ELSE IF ~HasSubscribe(obs)
       THEN /\ out' = Append(out, Message("ERROR", NoSubscribe))
            /\ stack' = Append([stack EXCEPT ![Len(stack)].pc = "done"],
                               Frame("sink", subs, "ERROR", "run"))
            /\ UNCHANGED <<objVars, escaped>>
       ELSE /\ Set(add(SetTop(M, [Top(stack) EXCEPT !.pc = "subscribe"]),
                       subs, InteropTeardown))
            /\ UNCHANGED <<out, escaped>>
    /\ UNCHANGED <<budget, last, subs, pulled, pending, handle, extSubs, extUnsubs,
                   inputVars>>

\* lines 78-82: the teardown runs (called by unsubscribe, or by add on a
\* closed subscription) and returns.
InteropTeardownRun ==
    /\ stack # <<>>
    /\ Top(stack).op = "teardown"
    /\ extUnsubs' = IF Callable(handle) THEN extUnsubs + 1 ELSE extUnsubs
    /\ Set(Return(M))
    /\ UNCHANGED <<budget, last, subs, pulled, out, escaped, pending, handle, extSubs,
                   inputVars>>

\* line 83: obs.subscribe(observer) is called; the code of the external
\* observable runs.
InteropSubscribe ==
    /\ stack # <<>>
    /\ Top(stack).op = "symbolObservableSource"
    /\ Top(stack).pc = "subscribe"
    /\ extSubs' = extSubs + 1
    /\ stack' = Append([stack EXCEPT ![Len(stack)].pc = "assign"],
                       Frame("external", subs, null, "run"))
    /\ UNCHANGED <<objVars, budget, last, subs, pulled, out, escaped, pending, handle,
                   extUnsubs, inputVars>>

\* lines 84-86: the external observable calls next, error or complete of
\* the observer, inside its subscribe or at a later time; the message goes
\* to the sink.
ExtEmit(type) ==
    /\ extSubs > 0
    /\ Len(out) < MaxOut
    /\ IF stack = <<>> THEN TRUE ELSE Top(stack).op = "external"
    /\ out' = Append(out, Message(type, IF type = "COMPLETE" THEN undefined ELSE "x"))
    /\ stack' = Append(stack, Frame("sink", subs, type, "run"))
    /\ UNCHANGED <<objVars, budget, last, subs, pulled, escaped, pending, handle,
                   extSubs, extUnsubs, inputVars>>

\* lines 83-88: obs.subscribe returns h, which is assigned to
\* `subscription`, and the function returns.
ExtReturn(h) ==
    /\ stack # <<>>
    /\ Top(stack).op = "external"
    /\ handle' = h
    /\ stack' = Pop(Pop(stack))
    /\ UNCHANGED <<objVars, budget, last, subs, pulled, out, escaped, pending,
                   extSubs, extUnsubs, inputVars>>

\* line 75: `return` after the ERROR of line 74.
InteropReturn ==
    /\ stack # <<>>
    /\ Top(stack).op = "symbolObservableSource"
    /\ Top(stack).pc = "done"
    /\ Set(Return(M))
    /\ UNCHANGED <<budget, last, srcVars>>

InitInterop ==
    /\ InitSub
    /\ budget = MaxInteropOps
    /\ InitSrc
    /\ items = <<>>
    /\ endless = FALSE
    /\ failing = FALSE
    /\ promise = NoPromise
    /\ obs \in Observables

NextInterop ==
    \/ Next
    \/ \E t \in Tok : SubscribeInterop(t)
    \/ InteropStart
    \/ InteropCheck
    \/ InteropTeardownRun
    \/ InteropSubscribe
    \/ \E type \in {"NEXT", "ERROR", "COMPLETE"} : ExtEmit(type)
    \/ \E h \in Handles : ExtReturn(h)
    \/ InteropReturn
    \/ SinkReturn

SpecInterop == InitInterop /\ [][NextInterop]_vars

----------------------------------------------------------------------------
(* from.ts: asyncIterableSource, lines 92-111.                             *)

\* The promise of the n+1st call of ai.next() is rejected.
AsyncRejects(n) == IteratorThrows(n)

\* Mutant of AfterMessage: a new request follows every message.
AfterMessageAlwaysAgain(type) == "again"

\* lines 98-103: what the callback does after the sink returns: after NEXT
\* it calls getNextValue() again, after COMPLETE and ERROR it returns.
AfterMessage(type) == IF type = "NEXT" THEN "again" ELSE "done"

\* source(FOType.SUBSCRIBE, sink, subs), lines 93-109: the async iterator
\* is made, getNextValue() makes the first call of ai.next() and registers
\* the callbacks with its promise.
SubscribeAsync(t) ==
    /\ stack = <<>>
    /\ subs = null
    /\ subs' = t
    /\ pulled' = pulled + 1
    /\ pending' = 1
    /\ UNCHANGED <<objVars, stack, budget, last, out, escaped, handle,
                   extSubs, extUnsubs, inputVars>>

\* lines 97-106: the promise of ai.next() settles and its callback is
\* called (from the job queue, hence on an empty stack), up to the call of
\* the sink: ERROR when it is rejected, COMPLETE when the result is done,
\* NEXT otherwise.
AsyncStep ==
    /\ stack = <<>>
    /\ pending = 1
    /\ pending' = 0
    /\ LET msg == IF AsyncRejects(pulled - 1) THEN Message("ERROR", "e")
                  ELSE IF IteratorNext(pulled - 1).done THEN Message("COMPLETE", undefined)
                  ELSE Message("NEXT", IteratorNext(pulled - 1).value)
       IN  /\ out' = Append(out, msg)
           /\ stack' = <<Frame("asyncIterableSource", subs, null, AfterMessage(msg.type)),
                         Frame("sink", subs, msg.type, "run")>>
    /\ UNCHANGED <<objVars, budget, last, subs, pulled, escaped, handle,
                   extSubs, extUnsubs, inputVars>>

\* line 102: getNextValue() after NEXT: ai.next() is called again, the
\* callbacks are registered with its promise, and the callback returns.
AsyncAgain ==
    /\ stack # <<>>
    /\ Top(stack).op = "asyncIterableSource"
    /\ Top(stack).pc = "again"
    /\ pulled < MaxPulls
    /\ pulled' = pulled + 1
    /\ pending' = 1
    /\ stack' = Pop(stack)
    /\ UNCHANGED <<objVars, budget, last, subs, out, escaped, handle,
                   extSubs, extUnsubs, inputVars>>

\* The async iterables: the finite and the failing ones of every length,
\* and the one that yields "x" for ever.
InitAsync ==
    /\ InitSub
    /\ budget = MaxSrcOps
    /\ InitSrc
    /\ items \in Iterables
    /\ endless \in BOOLEAN
    /\ failing \in BOOLEAN
    /\ ~(endless /\ failing)
    /\ endless => items = <<>>
    /\ promise = NoPromise
    /\ obs = undefined

NextAsync ==
    \/ Next
    \/ \E t \in Tok : SubscribeAsync(t)
    \/ AsyncStep
    \/ AsyncAgain
    \/ CallbackReturn
    \/ SinkReturn

SpecAsync == InitAsync /\ [][NextAsync]_vars

----------------------------------------------------------------------------
(* Vocabulary of the properties.                                           *)

\* A null list holds nothing.
ListOf(l) == IF l = NullSeq THEN <<>> ELSE l

Count(l, x) == Cardinality({i \in 1..Len(l) : l[i] = x})

\* The unsubscribe calls in progress, by stack position.
UnsubAt(i) == stack[i].op = "unsubscribe"
AtEnd(i) == UnsubAt(i) /\ stack[i].pc = "end"

\* The environment makes a call `op` in this step.
Calls(op) == budget' = budget - 1 /\ last'.op = op

\* l2 is l without the first occurrence of x (l itself when x is not in l).
WithoutFirst(l, x, l2) ==
    IF ~Includes(l, x) THEN l2 = l
    ELSE \E i \in 1..Len(l) :
            /\ l[i] = x
            /\ \A j \in 1..(i - 1) : l[j] # x
            /\ l2 = SubSeq(l, 1, i - 1) \o SubSeq(l, i + 1, Len(l))

\* The entries of x that are stored and still to be executed: in the lists
\* of the subscriptions, and in the part of a list that a loop in progress
\* has not reached yet.
Outstanding(x) ==
    Cardinality(UNION {{<<t, i>> : i \in {j \in 1..Len(ListOf(teardowns[t])) :
                                            teardowns[t][j] = x}} : t \in Tok})
    + Cardinality(UNION {{<<k, i>> : i \in {j \in 1..Len(ListOf(stack[k].list)) :
                                            /\ UnsubAt(k)
                                            /\ stack[k].pc = "loop"
                                            /\ j >= stack[k].idx
                                            /\ stack[k].list[j] = x}} : k \in 1..Len(stack)})

\* The errors array that collects the thrown values es in order, an
\* UnsubscriptionError giving its own errors in its place.
RECURSIVE FlatErrors(_)
FlatErrors(es) ==
    IF es = <<>> THEN <<>>
    ELSE (IF Head(es).agg THEN Head(es).errors ELSE <<Head(es).name>>) \o FlatErrors(Tail(es))

\* S with the Subscriptions of the lists that its members iterated, and so on.
RECURSIVE Close(_)
Close(S) ==
    LET S2 == S \cup UNION {snap[c] : c \in S}
    IN  IF S2 = S THEN S ELSE Close(S2)

heapVars == <<closed, singleParent, parents, teardowns, unsubscribeFn>>

\* The source itself has thrown nothing (what the sink throws is the sink's).
NothingThrown == escaped \in {null, SinkError}
\* The sink has returned from every message so far.
SinkReturns == escaped # SinkError

----------------------------------------------------------------------------
(* C1.                                                                     *)

\* The function handed to the constructor runs at most once, and every
\* stored teardown entry is accounted for: it is still stored, or it was
\* removed, or it was executed once (never twice, never dropped).
C1_Once ==
    /\ \A t \in Tok : relRuns[t] <= 1
    /\ \A x \in Tok \cup Fn : due[x] = Outstanding(x)

\* unsubscribe() on a subscription that is closed (a second call, or a call
\* made from inside its own _unsubscribe or teardowns) changes nothing and
\* calls nothing, so it cannot raise.
C1_Noop ==
    (Calls("unsubscribe") /\ closed[last'.self])
        => UNCHANGED <<heapVars, stack, due, relRuns, closings, snap>>

\* C1: for any sequence of unsubscribe calls on a subscription, re-entrant
\* ones included, its _unsubscribe runs at most once, every stored teardown
\* is executed exactly once in total, and every call after the first is a
\* no-op that raises nothing.
C1_Idempotent == []C1_Once /\ [][C1_Noop]_vars

\* A subscription with teardowns is unsubscribed again from inside one of
\* its own teardowns.
C1_Witness ==
    /\ last.op = "unsubscribe"
    /\ last.depth >= 2
    /\ Len(stack) = last.depth
    /\ Top(stack).op = "fn"
    /\ UnsubAt(Len(stack) - 1)
    /\ stack[Len(stack) - 1].self = last.self
    /\ stack[Len(stack) - 1].pc = "loop"
    /\ Len(ListOf(stack[Len(stack) - 1].list)) >= 2

----------------------------------------------------------------------------
(* C2.                                                                     *)

----------------------------------------------------------------------------
(* C3.                                                                     *)

\* At the end of an unsubscribe pass every teardown of the list was
\* executed, whatever was thrown on the way, and the errors collected are
\* the thrown values in the order they were thrown, an UnsubscriptionError
\* replaced by its own errors; the array is unset when nothing was thrown.
C3_Collected ==
    \A i \in 1..Len(stack) :
        AtEnd(i) =>
            /\ stack[i].ran = Len(ListOf(stack[i].list))
            /\ stack[i].idx = Len(ListOf(stack[i].list)) + 1
            /\ IF stack[i].thrown = <<>> THEN stack[i].errors = NullSeq
               ELSE stack[i].errors = FlatErrors(stack[i].thrown)

\* An unsubscribe that ends inside the loop of a parent's unsubscribe hands
\* the parent exactly one UnsubscriptionError holding its errors when
\* something was thrown, and nothing otherwise.
C3_Raise ==
    (/\ Len(stack) >= 2
     /\ AtEnd(Len(stack))
     /\ UnsubAt(Len(stack) - 1))
        => /\ Len(stack') >= Len(stack) - 1
           /\ stack'[Len(stack) - 1].thrown =
                 IF stack[Len(stack)].thrown = <<>>
                 THEN stack[Len(stack) - 1].thrown
                 ELSE Append(stack[Len(stack) - 1].thrown,
                             UnsubscriptionError(FlatErrors(stack[Len(stack)].thrown)))

\* C3: in one unsubscribe pass a failure of _unsubscribe or of a teardown
\* never stops the remaining teardowns, and the pass ends by raising one
\* UnsubscriptionError whose errors are the errors raised, in execution
\* order, a child's UnsubscriptionError spliced in flat; it returns
\* normally when nothing failed.
C3_Aggregation == []C3_Collected /\ [][C3_Raise]_vars

\* _unsubscribe threw, then a child raised an UnsubscriptionError, then a
\* plain teardown threw: three values, the second one aggregated.
C3_Witness ==
    \E i \in 1..Len(stack) :
        /\ AtEnd(i)
        /\ Len(stack[i].thrown) = 3
        /\ ~stack[i].thrown[1].agg
        /\ stack[i].thrown[2].agg
        /\ ~stack[i].thrown[3].agg
        /\ Len(stack[i].errors) = 3

----------------------------------------------------------------------------
(* C4.                                                                     *)

\* add(f) on a closed subscription calls f inside the call of add.
C4_Function ==
    (Calls("add") /\ closed[last'.self] /\ last'.arg \in Fn)
        => /\ Len(stack') = Len(stack) + 2
           /\ stack'[Len(stack) + 1] = Frame("add", last'.self, last'.arg, "call")
           /\ stack'[Len(stack) + 2] = Frame("fn", null, last'.arg, "run")
           /\ teardowns' = teardowns

\* add(s) on a closed subscription unsubscribes s inside the call of add.
C4_Subscription ==
    (Calls("add") /\ closed[last'.self] /\ last'.arg \in Tok \ {last'.self})
        => /\ closed'[last'.arg]
           /\ ~Includes(ListOf(teardowns'[last'.self]), last'.arg)
           /\ ~closed[last'.arg] =>
                 /\ Len(stack') >= Len(stack) + 2
                 /\ stack'[Len(stack) + 1] = Frame("add", last'.self, last'.arg, "call")
                 /\ stack'[Len(stack) + 2].op = "unsubscribe"
                 /\ stack'[Len(stack) + 2].self = last'.arg

\* The list of a closed subscription never grows.
C4_NothingStored ==
    \A t \in Tok :
        closed[t] => Len(ListOf(teardowns'[t])) <= Len(ListOf(teardowns[t]))

\* C4: add on a closed subscription (also one in the middle of its own
\* unsubscribe) executes the teardown synchronously inside the call and
\* stores nothing.
C4_AddOnClosed == [][C4_Function /\ C4_Subscription /\ C4_NothingStored]_vars

\* A teardown of a subscription that is being unsubscribed adds a function
\* to that subscription, and the function is running inside the add.
C4_Witness ==
    /\ last.op = "add"
    /\ last.arg \in Fn
    /\ closed[last.self]
    /\ last.depth >= 2
    /\ Len(stack) = last.depth + 2
    /\ Top(stack) = Frame("fn", null, last.arg, "run")
    /\ stack[Len(stack) - 1].op = "add"
    /\ \E i \in 1..(last.depth - 1) :
          UnsubAt(i) /\ stack[i].self = last.self /\ stack[i].pc = "loop"

----------------------------------------------------------------------------
(* C5.                                                                     *)

\* The call changes no subscription, calls nothing and raises nothing.
C5_Step ==
    (/\ Calls("add")
     /\ ~closed[last'.self]
     /\ \/ last'.arg = undefined
        \/ last'.arg = last'.self
        \/ (last'.arg \in Tok /\ closed[last'.arg]))
        => UNCHANGED <<heapVars, stack, due, relRuns, closings, snap>>

\* C5: on an open subscription add(undefined), add(itself) and add(a closed
\* Subscription) are no-ops.
C5_AddNoop == [][C5_Step]_vars

\* A closed Subscription was handed to add on an open subscription that
\* holds teardowns; its list is as before.
C5_Witness ==
    /\ last.op = "add"
    /\ last.arg \in Tok \ {last.self}
    /\ closed[last.arg]
    /\ ~closed[last.self]
    /\ last.depth = 0
    /\ stack = <<>>
    /\ last.pre # NullSeq
    /\ teardowns[last.self] = last.pre

----------------------------------------------------------------------------
(* C6.                                                                     *)

\* A Subscription is at most once in a list.
C6_NoDuplicate ==
    /\ \A t, c \in Tok : Count(ListOf(teardowns[t]), c) <= 1
    /\ \A i \in 1..Len(stack), c \in Tok : Count(ListOf(stack[i].list), c) <= 1

\* Every add of a function to an open subscription appends one entry.
C6_Stored ==
    (Calls("add") /\ ~closed[last'.self] /\ last'.arg \in Fn)
        => teardowns'[last'.self] = Append(ListOf(teardowns[last'.self]), last'.arg)

\* The list an unsubscribe iterates is the stored list.
C6_Taken ==
    \A i \in 1..Len(stack') :
        (/\ stack'[i].op = "unsubscribe"
         /\ stack'[i].pc = "loop"
         /\ stack'[i].idx = 1
         /\ (IF i <= Len(stack) THEN stack[i].pc # "loop" ELSE TRUE))
            => stack'[i].list = teardowns[stack'[i].self]

\* The loop calls the function at each position of the list, one position
\* per round.
C6_Invoked ==
    (/\ stack # <<>>
     /\ UnsubAt(Len(stack))
     /\ Top(stack).pc = "loop"
     /\ Top(stack).idx <= Len(ListOf(Top(stack).list))
     /\ Top(stack).list[Top(stack).idx] \in Fn
     /\ stack' # stack)
        => stack' = Append([stack EXCEPT ![Len(stack)].idx = @ + 1,
                                         ![Len(stack)].ran = @ + 1],
                           Frame("fn", null, Top(stack).list[Top(stack).idx], "run"))

\* C6: a child Subscription is at most once in a parent's list, it may be
\* in the lists of two parents, and a function added k times is stored k
\* times and called k times by unsubscribe.
C6_Multiplicity == []C6_NoDuplicate /\ [][C6_Stored /\ C6_Taken /\ C6_Invoked]_vars

\* A child that is in the lists of two parents was added to one of them a
\* second time, and is in that list once.
C6_Witness ==
    /\ last.op = "add"
    /\ last.arg \in Tok
    /\ Includes(ListOf(last.pre), last.arg)
    /\ teardowns[last.self] = last.pre
    /\ Cardinality({p \in Tok : Includes(ListOf(teardowns[p]), last.arg)}) >= 2

----------------------------------------------------------------------------
(* C7.                                                                     *)

\* remove(x) on an open subscription takes the first x out of its list and
\* changes no other list; nothing is closed or called; when x is not in the
\* list nothing changes at all.
C7_Step ==
    (Calls("remove") /\ ~closed[last'.self])
        => /\ IF teardowns[last'.self] = NullSeq
              THEN teardowns'[last'.self] = NullSeq
              ELSE WithoutFirst(teardowns[last'.self], last'.arg, teardowns'[last'.self])
           /\ \A u \in Tok \ {last'.self} : teardowns'[u] = teardowns[u]
           /\ UNCHANGED <<closed, unsubscribeFn, stack, relRuns, closings, snap>>
           /\ ~Includes(ListOf(teardowns[last'.self]), last'.arg)
                 => UNCHANGED <<heapVars, due>>

\* C7: remove(x) on an open subscription deletes exactly the first
\* occurrence of x and keeps the other entries in order; remove of an
\* entry that is not there changes nothing.  A later unsubscribe iterates
\* the list as remove left it and calls each entry once, so a function
\* added N times and removed once is called N-1 times.
C7_RemoveFirst == [][C7_Step /\ C6_Taken /\ C6_Invoked]_vars

\* x was removed from the list <<x, y, x>>: <<y, x>> is left.
C7_Witness ==
    /\ last.op = "remove"
    /\ ~closed[last.self]
    /\ last.pre # NullSeq
    /\ Len(last.pre) = 3
    /\ last.pre[1] = last.arg
    /\ last.pre[2] # last.arg
    /\ last.pre[3] = last.arg
    /\ teardowns[last.self] = <<last.pre[2], last.pre[3]>>

----------------------------------------------------------------------------
(* C8.                                                                     *)

\* While the pair is split, the child is not in the parent's list, does not
\* list the parent, and is in no list the parent's unsubscribe iterates.
C8_Split ==
    \A d \in detached :
        /\ ~HasParent(M, d[2], d[1])
        /\ ~Includes(ListOf(teardowns[d[1]]), d[2])
        /\ d[2] \notin snap[d[1]]
        /\ \A i \in 1..Len(stack) :
              (UnsubAt(i) /\ stack[i].self = d[1]) => ~Includes(ListOf(stack[i].list), d[2])

\* remove of an open child closes nothing and calls nothing.
C8_NotDisposed ==
    (/\ Calls("remove")
     /\ last'.arg \in Tok
     /\ ~closed[last'.arg]
     /\ Includes(ListOf(teardowns[last'.self]), last'.arg))
        => UNCHANGED <<closed, closings, stack, relRuns>>

\* The unsubscribe of the parent is not what closes a child split from it.
C8_NotByParent ==
    \A d \in detached :
        (~closed[d[2]] /\ closed'[d[2]])
            => ~(/\ stack # <<>>
                 /\ UnsubAt(Len(stack))
                 /\ Top(stack).self = d[1])

\* The unsubscribe of subscription p is running its teardowns, with nothing
\* but calls of unsubscribe from it to the call in progress.
C8_PassOf(p) ==
    \E i \in 1..Len(stack) :
        /\ UnsubAt(i)
        /\ stack[i].self = p
        /\ \A j \in i..Len(stack) : UnsubAt(j)

\* The unsubscribe of the parent does not close a child split from it,
\* neither from its own list nor through the lists below it.
C8_NeverThroughParent ==
    \A d \in detached :
        (~closed[d[2]] /\ closed'[d[2]]) => ~C8_PassOf(d[1])

\* The child can be added to the parent again.
C8_AddAgain ==
    (/\ Calls("add")
     /\ <<last'.self, last'.arg>> \in detached
     /\ ~closed[last'.self]
     /\ ~closed[last'.arg])
        => /\ teardowns'[last'.self] = Append(ListOf(teardowns[last'.self]), last'.arg)
           /\ \/ singleParent'[last'.arg] = last'.self
              \/ (parents'[last'.arg] # NullSeq /\ Includes(parents'[last'.arg], last'.self))

\* C8 as stated: after parent.remove(child) for an open child that was in
\* the parent's list the two are fully detached and the child is not
\* disposed: it stays open, a later unsubscribe of the parent does not
\* close it, it does not list the parent, and it can be added again.
C8_FullyDetached ==
    []C8_Split /\ [][C8_NotDisposed /\ C8_NeverThroughParent /\ C8_AddAgain]_vars

\* C8, amended: after parent.remove(child) for an open child that was in
\* the parent's list the child is not disposed: it stays open, it is not in
\* the list the parent's unsubscribe iterates and that unsubscribe does not
\* call the child's (the child is closed by it only as an entry of another
\* list that is disposed with the parent), it does not list the parent, and
\* it can be added again.
C8_Detached == []C8_Split /\ [][C8_NotDisposed /\ C8_NotByParent /\ C8_AddAgain]_vars

\* The parent was unsubscribed after the remove; the child is still open.
C8_Witness ==
    \E d \in detached :
        /\ ~closed[d[2]]
        /\ \E i \in 1..Len(stack) : AtEnd(i) /\ stack[i].self = d[1]

----------------------------------------------------------------------------
(* C9.                                                                     *)

\* The step in which a subscription c gets closed: c leaves every list it
\* is in, and lists no parent any more; no other subscription is closed or
\* changes its parents, no other entry of a list moves, and the only code
\* called is c's own unsubscribe and the function given to c's constructor.
C9_Step ==
    \A c \in Tok :
        (~closed[c] /\ closed'[c]) =>
            /\ \A p \in Tok \ {c} :
                  /\ closed'[p] = closed[p]
                  /\ singleParent'[p] = singleParent[p]
                  /\ parents'[p] = parents[p]
                  /\ IF teardowns[p] = NullSeq THEN teardowns'[p] = NullSeq
                     ELSE /\ WithoutFirst(teardowns[p], c, teardowns'[p])
                          /\ ~Includes(teardowns'[p], c)
            /\ singleParent'[c] = null
            /\ parents'[c] = NullSeq
            /\ \A i \in (Len(stack) + 1)..Len(stack') :
                  /\ stack'[i].op = "unsubscribe" => stack'[i].self = c
                  /\ stack'[i].op = "fn" => stack'[i].arg = unsubscribeFn[c]
                  /\ stack'[i].op = "add" => stack'[i].arg = c

\* The call of unsubscribe in progress at stack position i is the latest
\* call the environment made: all that has run since is that call.
C9_Call(i) ==
    /\ UnsubAt(i)
    /\ last.op = "unsubscribe"
    /\ last.self = stack[i].self
    /\ i = last.depth + 1

C9_OnlyBelow ==
    \A i \in 1..Len(stack) :
        C9_Call(i) =>
            \A t \in stack[i].kin : closed[t] => t \in Close(snap[stack[i].self])

----------------------------------------------------------------------------
(* C10.                                                                    *)

\* Once the subscription given to the source is closed, no message is
\* delivered and iterator.next() is not called.
C10_Step ==
    (IF subs' = null THEN FALSE ELSE closed[subs'])
        => (out' = out /\ pulled' = pulled)

\* C10: for iterableSource, once the subscription is closed no further
\* message is delivered and no further item is pulled: nothing at all when
\* it is closed at SUBSCRIBE, and no later NEXT, COMPLETE or ERROR when the
\* sink closes it while handling a NEXT, the last one included.
C10_StopsWhenClosed == [][C10_Step]_vars

\* The sink closed the subscription while handling the NEXT of the last
\* item of a finite iterable; the source has returned without COMPLETE.
C10_Witness ==
    /\ subs # null
    /\ closed[subs]
    /\ stack = <<>>
    /\ ~endless
    /\ Len(items) >= 2
    /\ pulled = Len(items)
    /\ Len(out) = Len(items)
    /\ out[Len(out)].type = "NEXT"
    /\ last.op = "unsubscribe"
    /\ last.self = subs
    /\ last.depth = 2

----------------------------------------------------------------------------
(* C11.                                                                    *)

\* A step taken while the subscription given to the source is closed
\* delivers nothing to the sink.
C11_Step ==
    (IF subs = null THEN FALSE ELSE closed[subs]) => out' = out

\* C11: for promiseSource, no NEXT, ERROR or COMPLETE is delivered once the
\* subscription is closed: not when it is closed before the promise is
\* fulfilled, not when it is closed before the promise is rejected, and no
\* COMPLETE when the sink closes it while handling the NEXT.
C11_SilentWhenClosed == [][C11_Step]_vars

\* The subscription was closed before the rejection; ERROR is delivered.
C11_Witness ==
    /\ subs # null
    /\ closed[subs]
    /\ promise.state = "rejected"
    /\ out = <<Message("ERROR", promise.value)>>
    /\ Len(stack) = 2
    /\ Top(stack).op = "sink"
    /\ last.op = "unsubscribe"
    /\ last.self = subs
    /\ last.depth = 0

----------------------------------------------------------------------------
(* C12.                                                                    *)

\* C12: for symbolObservableSource, whenever the subscription is closed and
\* obs.subscribe has returned a handle with a callable unsubscribe, that
\* unsubscribe has been called (no call being in progress): whether the
\* subscription was closed after obs.subscribe returned, from inside
\* obs.subscribe, or before SUBSCRIBE.
C12_CancelPropagates ==
    (/\ stack = <<>>
     /\ subs # null
     /\ closed[subs]
     /\ extSubs > 0
     /\ Callable(handle)) => extUnsubs > 0

\* The subscription was closed from inside obs.subscribe (by the sink, on a
\* NEXT); obs.subscribe has returned an unsubscribable handle, which was
\* never unsubscribed.
C12_Witness ==
    /\ stack = <<>>
    /\ subs # null
    /\ closed[subs]
    /\ extSubs = 1
    /\ Callable(handle)
    /\ extUnsubs = 0
    /\ last.op = "unsubscribe"
    /\ last.self = subs
    /\ last.depth = 3
    /\ out = <<Message("NEXT", "x")>>

----------------------------------------------------------------------------
(* C13.                                                                    *)

\* C13: for symbolObservableSource, when input[Symbol.observable]() returns
\* null, undefined or another empty value, the failure is exactly one ERROR
\* message and nothing is thrown: SUBSCRIBE returns normally, no second
\* message follows, and obs.subscribe is not called.
C13_OneErrorNotThrown ==
    (subs # null /\ Falsy(obs)) =>
        /\ NothingThrown
        /\ extSubs = 0
        /\ Len(out) <= 1
        /\ stack = <<>> => out = <<Message("ERROR", NotReturned)>>

\* null was returned: ERROR was delivered and the SUBSCRIBE call has ended.
C13_Witness ==
    /\ subs # null
    /\ obs = null
    /\ stack = <<>>
    /\ out = <<Message("ERROR", NotReturned)>>

----------------------------------------------------------------------------
(* C14.                                                                    *)

\* C14: for symbolObservableSource, when input[Symbol.observable]() returns
\* an object without a callable subscribe, SUBSCRIBE delivers exactly one
\* ERROR and nothing else: no NEXT, no COMPLETE, the source's teardown is
\* neither stored in a subscription nor run, obs.subscribe is not called
\* and nothing is thrown.
C14_NoSubscribeMethod ==
    (subs # null /\ obs = "object") =>
        /\ NothingThrown
        /\ extSubs = 0
        /\ Len(out) <= 1
        /\ \A i \in 1..Len(out) : out[i] = Message("ERROR", NoSubscribe)
        /\ \A t \in Tok : ~Includes(ListOf(teardowns[t]), InteropTeardown)
        /\ \A i \in 1..Len(stack) : stack[i].op # "teardown"
        /\ (stack = <<>> \/ Top(stack).op = "sink") => out = <<Message("ERROR", NoSubscribe)>>

\* An object without subscribe was returned; the ERROR was delivered and
\* SUBSCRIBE has returned.
C14_Witness ==
    /\ subs # null
    /\ obs = "object"
    /\ stack = <<>>
    /\ out = <<Message("ERROR", NoSubscribe)>>
    /\ last.op = "unsubscribe"
    /\ last.self = subs
    /\ last.depth = 2

----------------------------------------------------------------------------
(* C15.                                                                    *)

\* C15: for iterableSource, a failure of iterator.next() is delivered to
\* the sink as ERROR, as the last message, and does not leave the SUBSCRIBE
\* call as an exception.
C15_FailureAsError ==
    /\ NothingThrown
    /\ (subs # null /\ IteratorThrows(Len(items)) /\ pulled > Len(items)) =>
           (out # <<>> /\ out[Len(out)].type = "ERROR")

\* iterator.next() threw after two values: the exception left SUBSCRIBE.
C15_Witness ==
    /\ subs # null
    /\ ~closed[subs]
    /\ Len(items) = 2
    /\ pulled = 3
    /\ stack = <<>>
    /\ escaped = "iterator error"
    /\ Len(out) = 2

----------------------------------------------------------------------------
(* C16.                                                                    *)

\* The messages of a finite iterable: NEXT of each value, then COMPLETE.
C16_Expected ==
    [i \in 1..(Len(items) + 1) |->
        IF i <= Len(items) THEN Message("NEXT", items[i]) ELSE Message("COMPLETE", undefined)]

\* C16: for iterableSource with a finite iterable v1..vn (n >= 0), a
\* subscription that is not closed and a sink that returns from every
\* message, the sink receives NEXT(v1), ..., NEXT(vn) in order, then one
\* COMPLETE, no ERROR and nothing after COMPLETE, and has received all of
\* them when SUBSCRIBE returns.
C16_Exact ==
    (subs # null /\ ~closed[subs] /\ ~endless /\ ~failing /\ SinkReturns) =>
        /\ Len(out) <= Len(C16_Expected)
        /\ out = SubSeq(C16_Expected, 1, Len(out))
        /\ stack = <<>> => out = C16_Expected
        /\ escaped = null

\* SUBSCRIBE has returned after two values and COMPLETE; the sink called
\* add on the subscription on the way.
C16_Witness ==
    /\ subs # null
    /\ ~closed[subs]
    /\ ~endless
    /\ ~failing
    /\ stack = <<>>
    /\ Len(items) = 2
    /\ Len(out) = 3
    /\ pulled = 3
    /\ last.op = "add"
    /\ last.depth = 2

----------------------------------------------------------------------------
(* C17.                                                                    *)

\* The messages of a promise: NEXT and COMPLETE when it fulfils, ERROR when
\* it rejects, none while it is pending.
C17_Expected ==
    IF promise.state = "fulfilled"
    THEN <<Message("NEXT", promise.value), Message("COMPLETE", undefined)>>
    ELSE IF promise.state = "rejected" THEN <<Message("ERROR", promise.value)>>
    ELSE <<>>

\* COMPLETE and ERROR are never both delivered.
C17_NeverBoth ==
    ~\E i, j \in 1..Len(out) : out[i].type = "COMPLETE" /\ out[j].type = "ERROR"

\* C17: for promiseSource with a subscription that stays open (and a sink
\* that returns from every message), a promise fulfilled with v yields
\* exactly NEXT(v) then COMPLETE, a promise rejected with e yields exactly
\* ERROR(e) and no NEXT; COMPLETE and ERROR are never both delivered.
C17_Settled ==
    /\ C17_NeverBoth
    /\ (subs # null /\ ~closed[subs] /\ SinkReturns) =>
           /\ Len(out) <= Len(C17_Expected)
           /\ out = SubSeq(C17_Expected, 1, Len(out))
           /\ (pending = 0 /\ stack = <<>>) => out = C17_Expected

\* The promise was rejected; ERROR was delivered and the callback is over,
\* the sink having called add on the subscription.
C17_Witness ==
    /\ subs # null
    /\ ~closed[subs]
    /\ promise.state = "rejected"
    /\ pending = 0
    /\ stack = <<>>
    /\ out = <<Message("ERROR", "e")>>
    /\ last.op = "add"
    /\ last.self = subs
    /\ last.depth = 2

----------------------------------------------------------------------------
(* C18.                                                                    *)

\* The message of the i-th step of the async iterable.
C18_Message(i) ==
    IF i <= Len(items) THEN Message("NEXT", items[i])
    ELSE IF endless THEN Message("NEXT", "x")
    ELSE IF failing THEN Message("ERROR", "e")
    ELSE Message("COMPLETE", undefined)

C18_Terminal(msg) == msg.type \in {"COMPLETE", "ERROR"}

\* C18: for asyncIterableSource with a subscription that stays open (and a
\* sink that returns from every message), every step that resolves with a
\* value gives one NEXT, in step order, and one further call of ai.next();
\* the first step that resolves as done gives COMPLETE, the first that is
\* rejected gives ERROR; after that message ai.next() is not called and
\* nothing is delivered, so there is exactly one terminal message.
C18_Steps ==
    (subs # null /\ ~closed[subs] /\ SinkReturns) =>
        /\ \A i \in 1..Len(out) : out[i] = C18_Message(i)
        /\ \A i \in 1..(Len(out) - 1) : ~C18_Terminal(out[i])
        /\ pulled = Len(out) + pending
        /\ stack = <<>> => (pending = 0 <=> (out # <<>> /\ C18_Terminal(out[Len(out)])))

\* Two values were delivered and the third step was rejected: ERROR is the
\* last message and no request is pending.
C18_Witness ==
    /\ subs # null
    /\ ~closed[subs]
    /\ SinkReturns
    /\ failing
    /\ Len(items) = 2
    /\ stack = <<>>
    /\ Len(out) = 3
    /\ out[3] = Message("ERROR", "e")
    /\ pulled = 3
    /\ pending = 0

----------------------------------------------------------------------------
(* C19.                                                                    *)

\* Once the subscription is closed, ai.next() is not called again.
C19_Step ==
    (IF subs = null THEN FALSE ELSE closed[subs]) => pulled' = pulled

\* C19: for asyncIterableSource, once the subscription is closed no further
\* element is requested from the async iterator, so that at most the one
\* step in flight still lands (every message answers one request).
C19_StopsRequesting == [][C19_Step]_vars

\* The sink closed the subscription while handling a NEXT; that callback
\* has called ai.next() again all the same, and its promise is pending.
C19_Witness ==
    /\ subs # null
    /\ closed[subs]
    /\ stack = <<>>
    /\ pending = 1
    /\ pulled = Len(out) + 1
    /\ Len(out) >= 1
    /\ last.op = "unsubscribe"
    /\ last.self = subs
    /\ last.depth = 2
    /\ budget = MaxSrcOps - 1

----------------------------------------------------------------------------
(* C20.                                                                    *)

\* The parents of c: _singleParent, or the entries of _parents.
C20_Parents(c) == {p \in Tok : HasParent(M, c, p)}

\* C20: whenever no call of add, remove or unsubscribe is in progress, a
\* Subscription c is an entry of the list of an open subscription p exactly
\* when p is among the parents of c, and every closed subscription has an
\* empty list and no parents.
C20_ParentsConsistent ==
    stack = <<>> =>
        /\ \A p, c \in Tok :
              ~closed[p] => (Includes(ListOf(teardowns[p]), c) <=> p \in C20_Parents(c))
        /\ \A t \in Tok :
              closed[t] => /\ ListOf(teardowns[t]) = <<>>
                           /\ singleParent[t] = null
                           /\ ListOf(parents[t]) = <<>>

\* No call is in progress; a child that had a parent was unsubscribed, and
\* its parent is still open and holds another child.
C20_Witness ==
    /\ stack = <<>>
    /\ last.op = "unsubscribe"
    /\ closed[last.self]
    /\ last.pp # {}
    /\ \A p \in last.pp :
          /\ ~closed[p]
          /\ \E c \in Tok : Includes(ListOf(teardowns[p]), c) /\ p \in C20_Parents(c)

====
